---- MODULE Spec2Model ----
(***************************************************************************)
(* Model of src/server.js: the WebSocket scan server.                      *)
(*                                                                         *)
(* State: the clock read by Date.now(), the readyState of each connection, *)
(* every task object ever created by startScan (with its aggregator, its   *)
(* abort flag and the suspended call stack of its scanDirectory walk), the *)
(* registry scanTasks, and the log of ws.send calls.                       *)
(*                                                                         *)
(* JavaScript runs each callback to completion, so one action is one       *)
(* callback: a message handler, the close handler, the resumption of a     *)
(* walk after an `await scanDirectory(...)`, or the .then/.catch callback  *)
(* of startScan.  Callbacks of different tasks and handlers interleave     *)
(* freely at the await points.                                             *)
(*                                                                         *)
(* Paths are strings; a string is modelled as a sequence of characters     *)
(* where the separator is the character Sep and every file or directory    *)
(* name is one character (a positive number that encodes stem and          *)
(* extension: name = 100 * stem + extension code).                         *)
(***************************************************************************)
EXTENDS Integers, Sequences, FiniteSets, TLC

\* ---------------------------------------------------------------- bounds
MaxTasks == 2
WalkTasks == 1
LiveTasks == 1
CloseTasks == 1
MaxEntries == 26
MaxSize == 4
MaxTime == 2
MaxDepth == 2
MFiles == 100
ProgressTasks == 2
PFiles == 10000
PTail == 60

\* ------------------------------------------------------ program constants
PROGRESS_EVERY == 50
PERCENT_CAP == 99
PERCENT_DIV == 100
DEFAULT_DEPTH == 2
TOP_N == 20
OPEN == 1
CLOSING == 2
CLOSED == 3

\* ------------------------------------------------------------ path strings
Sep == 0
Dot == 1

ExtNone == 0
ExtTxt == 1
ExtExe == 2
ExtLog == 3
\* the extension "constructor"
ExtCtor == 4

\* the keys every {} map inherits from Object.prototype: a lookup of such a
\* key is truthy although the map has no entry of its own for it
Inherited == {ExtCtor}

MkName(stem, ext) == 100 * stem + ext

\* path.extname(entry.name).toLowerCase() without the leading dot
extname(name) == name % 100

\* path.basename(fullPath, "." + extension)
basename(fullPath, ext) ==
    LET last == fullPath[Len(fullPath)]
    IN  IF ext # ExtNone /\ extname(last) = ext THEN last - ext ELSE last

RECURSIVE normalize(_)
\* path.normalize on a path without "." and ".." segments: runs of
\* separators collapse to one, a trailing separator is kept
normalize(p) ==
    IF Len(p) <= 1 THEN p
    ELSE IF p[1] = Sep /\ p[2] = Sep THEN normalize(Tail(p))
    ELSE <<p[1]>> \o normalize(Tail(p))

\* path.join(dirPath, entry.name)
join(dirPath, name) == normalize(dirPath \o <<Sep, name>>)

RECURSIVE dirnameEnd(_, _, _)
\* the backwards scan of path.dirname: the index of the separator that ends
\* the directory part, or 0 (the -1 of the library) when there is none
dirnameEnd(p, i, matchedSlash) ==
    IF i < 2 THEN 0
    ELSE IF p[i] = Sep
         THEN IF ~matchedSlash THEN i ELSE dirnameEnd(p, i - 1, matchedSlash)
         ELSE dirnameEnd(p, i - 1, FALSE)

\* path.dirname
dirname(p) ==
    IF Len(p) = 0 THEN <<Dot>>
    ELSE LET hasRoot == p[1] = Sep
             end == dirnameEnd(p, Len(p), TRUE)
         IN  IF end = 0 THEN (IF hasRoot THEN <<Sep>> ELSE <<Dot>>)
             ELSE IF hasRoot /\ end = 2 THEN <<Sep, Sep>>
             ELSE SubSeq(p, 1, end - 1)

\* String.prototype.startsWith
startsWith(p, q) == Len(q) <= Len(p) /\ SubSeq(p, 1, Len(q)) = q

\* ------------------------------------------------------------- file system
\* The tree the walks run over (it does not change during a run):
\*   /d            a.txt(1)  e.txt(stat fails)  s/  v/(unreadable)  o(other)  m/
\*   /d/s          b.exe(2)  t/
\*   /d/s/t        c.txt(4)              (t is an application directory)
\*   /d/m          k/(empty)  MFiles files *.log of 8 bytes
\*   /u            unreadable directory
\*   /z            h.exe(0)
\*   /w            q.constructor(3)  r.txt(5)
\*   /p            g/  j/
\*   /p/g          PFiles files *.log of 1 byte
\*   /p/j          PTail files *.log of 1 byte
\*   /x            does not exist
nD == MkName(1, ExtNone)
nS == MkName(2, ExtNone)
nT == MkName(3, ExtNone)
nV == MkName(4, ExtNone)
nO == MkName(5, ExtNone)
nM == MkName(6, ExtNone)
nU == MkName(7, ExtNone)
nX == MkName(8, ExtNone)
nK == MkName(13, ExtNone)
nZ == MkName(14, ExtNone)
nH == MkName(15, ExtExe)
nW == MkName(16, ExtNone)
nQ == MkName(17, ExtCtor)
nR == MkName(18, ExtTxt)
nP == MkName(19, ExtNone)
nJ == MkName(20, ExtNone)
nG == MkName(21, ExtNone)
nA == MkName(9, ExtTxt)
nE == MkName(10, ExtTxt)
nB == MkName(11, ExtExe)
nC == MkName(12, ExtTxt)
nF(i) == MkName(20 + i, ExtLog)

FileEnt(n, sz, ok) == [name |-> n, kind |-> "file", size |-> sz, statOk |-> ok]
DirEnt(n) == [name |-> n, kind |-> "dir", size |-> 0, statOk |-> TRUE]
OtherEnt(n) == [name |-> n, kind |-> "other", size |-> 0, statOk |-> TRUE]

\* the components of a path string (what the file system resolves)
Comps(p) == SelectSeq(p, LAMBDA ch : ch # Sep)

Dirs ==
    { <<>>, <<nD>>, <<nD, nS>>, <<nD, nS, nT>>, <<nD, nV>>, <<nD, nM>>, <<nD, nM, nK>>,
      <<nU>>, <<nZ>>, <<nW>>, <<nP>>, <<nP, nG>>, <<nP, nJ>> }
Unreadable == { <<nD, nV>>, <<nU>> }

\* fs.readdirSync(dir, {withFileTypes: true}) of a readable directory
Listing(cs) ==
    CASE cs = <<>> -> << DirEnt(nD), DirEnt(nU), DirEnt(nZ), DirEnt(nW), DirEnt(nP) >>
      [] cs = <<nZ>> -> << FileEnt(nH, 0, TRUE) >>
      [] cs = <<nW>> -> << FileEnt(nQ, 3, TRUE), FileEnt(nR, 5, TRUE) >>
      [] cs = <<nD>> -> << FileEnt(nA, 1, TRUE), FileEnt(nE, 16, FALSE), DirEnt(nS),
                           DirEnt(nV), OtherEnt(nO), DirEnt(nM) >>
      [] cs = <<nD, nS>> -> << FileEnt(nB, 2, TRUE), DirEnt(nT) >>
      [] cs = <<nD, nS, nT>> -> << FileEnt(nC, 4, TRUE) >>
      [] cs = <<nD, nM>> -> << DirEnt(nK) >> \o [i \in 1..MFiles |-> FileEnt(nF(i), 8, TRUE)]
      [] cs = <<nP>> -> << DirEnt(nG), DirEnt(nJ) >>
      [] cs = <<nP, nG>> -> [i \in 1..PFiles |-> FileEnt(nF(i), 1, TRUE)]
      [] cs = <<nP, nJ>> -> [i \in 1..PTail |-> FileEnt(nF(i), 1, TRUE)]
      [] OTHER -> << >>

\* fs.existsSync of an absolute path without "." and ".." segments: a
\* directory exists with or without a trailing separator, any other entry
\* only without one (the file system answers ENOTDIR)
existsSync(p) ==
    LET cs == Comps(p)
    IN  \/ cs \in Dirs
        \/ /\ Len(cs) > 0
           /\ p[Len(p)] # Sep
           /\ SubSeq(cs, 1, Len(cs) - 1) \in Dirs
           /\ \E i \in 1..Len(Listing(SubSeq(cs, 1, Len(cs) - 1))) :
                 Listing(SubSeq(cs, 1, Len(cs) - 1))[i].name = cs[Len(cs)]

\* fs.accessSync(p, R_OK) succeeds
accessOk(p) == Comps(p) \notin Unreadable

\* fs.readdirSync succeeds
readdirOk(p) == Comps(p) \in Dirs /\ Comps(p) \notin Unreadable

\* fullPath.toLowerCase().includes(<application directory marker>)
isInAppDirectory(fullPath) == \E i \in 1..Len(fullPath) : fullPath[i] = nT

\* ['exe', 'msi', ...].includes(extension)
isExecutable(ext) == ext = ExtExe

\* -------------------------------------------------------------- aggregator
\* scanStats as initialised by startScan
scanStats ==
    [ totalFiles |-> 0, totalSize |-> 0,
      fileTypes |-> << >>, folders |-> << >>, applications |-> << >>,
      keys |-> [fileTypes |-> << >>, folders |-> << >>, applications |-> << >>],
      scannedCount |-> 0, errorCount |-> 0 ]

\* map[key] = entry for a key the map may or may not hold
Put(map, key, entry) ==
    [k \in DOMAIN map \cup {key} |-> IF k = key THEN entry ELSE map[k]]

\* the keys of a map in the order in which its entries were created, the
\* order of Object.entries for keys that are not array indices: key is
\* appended when the map has no entry for it
ensureKey(keys, map, key) == IF key \in DOMAIN map THEN keys ELSE Append(keys, key)

RECURSIVE deepestFirst(_)
\* the folders one file creates, in the order of their creation: the folder
\* of the file, then its ancestors from the nearest one up
deepestFirst(S) ==
    IF S = {} THEN << >>
    ELSE LET k == CHOOSE x \in S : \A y \in S : Len(y) <= Len(x)
         IN  << k >> \o deepestFirst(S \ {k})

\* if (!stats.folders[key]) stats.folders[key] = {name, path, size: 0}
ensureFolder(folders, key) ==
    IF key \in DOMAIN folders THEN folders ELSE Put(folders, key, [path |-> key, size |-> 0])

\* stats.folders[key].size += size, creating the entry when absent
addFolderSize(folders, key, size) ==
    LET f == ensureFolder(folders, key)
    IN  [f EXCEPT ![key].size = @ + size]

RECURSIVE rollup(_, _, _, _, _)
\* the while loop that adds a file's size to the ancestors of its folder
rollup(folders, parentPath, folderPath, size, drivePath) ==
    IF /\ Len(parentPath) > 0
       /\ parentPath # folderPath
       /\ Len(parentPath) >= Len(drivePath)
       /\ startsWith(parentPath, drivePath)
    THEN LET added == addFolderSize(folders, parentPath, size)
             newParent == dirname(parentPath)
         IN  IF newParent = parentPath THEN added
             ELSE rollup(added, newParent, folderPath, size, drivePath)
    ELSE folders

recordFileNoSize(stats, fullPath, name, size, drivePath) ==
    [stats EXCEPT !.totalFiles = @ + 1, !.scannedCount = @ + 1]

\* the aggregator after one file whose statSync succeeded
recordFile(stats, fullPath, name, size, drivePath) ==
    LET extension == extname(name)
        ft == IF extension \in DOMAIN stats.fileTypes \cup Inherited THEN stats.fileTypes
              ELSE Put(stats.fileTypes, extension, [count |-> 0, size |-> 0])
        appName == basename(fullPath, extension)
        apps0 == IF appName \in DOMAIN stats.applications \cup Inherited
                 THEN stats.applications
                 ELSE Put(stats.applications, appName, [path |-> fullPath, size |-> 0])
        apps == IF isExecutable(extension) \/ isInAppDirectory(fullPath)
                THEN IF appName \in DOMAIN apps0
                     THEN [apps0 EXCEPT ![appName].size = @ + size]
                     ELSE apps0
                ELSE stats.applications
        folderPath == dirname(fullPath)
        own == addFolderSize(stats.folders, folderPath, size)
        folders == rollup(own, dirname(folderPath), folderPath, size, drivePath)
        keys == [ fileTypes |->
                      IF extension \in Inherited THEN stats.keys.fileTypes
                      ELSE ensureKey(stats.keys.fileTypes, stats.fileTypes, extension),
                  applications |->
                      IF (isExecutable(extension) \/ isInAppDirectory(fullPath))
                         /\ appName \notin Inherited
                      THEN ensureKey(stats.keys.applications, stats.applications, appName)
                      ELSE stats.keys.applications,
                  folders |->
                      stats.keys.folders
                          \o deepestFirst(DOMAIN folders \ DOMAIN stats.folders) ]
    IN  [ stats EXCEPT
            !.totalFiles = @ + 1,
            !.totalSize = @ + size,
            !.fileTypes = IF extension \in DOMAIN ft
                          THEN [ft EXCEPT ![extension].count = @ + 1,
                                          ![extension].size = @ + size]
                          ELSE ft,
            !.applications = apps,
            !.folders = folders,
            !.keys = keys,
            !.scannedCount = @ + 1 ]

Min(a, b) == IF a < b THEN a ELSE b

\* the scan_progress message of a task
progressMsgOfFifty(task, stats, ready) ==
    [ type |-> "scan_progress", taskId |-> task.taskId, task |-> task.self,
      conn |-> task.ws, readyState |-> ready,
      payload |-> [ scannedCount |-> stats.scannedCount, totalSize |-> stats.totalSize,
                    errorCount |-> stats.errorCount,
                    percentage |-> Min(PERCENT_CAP, stats.scannedCount \div PROGRESS_EVERY) ] ]

\* the scan_progress message built from the aggregator
progressMsg(task, stats, ready) ==
    [ type |-> "scan_progress", taskId |-> task.taskId, task |-> task.self,
      conn |-> task.ws, readyState |-> ready,
      payload |-> [ scannedCount |-> stats.scannedCount, totalSize |-> stats.totalSize,
                    errorCount |-> stats.errorCount,
                    percentage |-> Min(PERCENT_CAP, stats.scannedCount \div PERCENT_DIV) ] ]

\* ---------------------------------------------------------------- the walk
\* A walk is the stack of suspended scanDirectory calls; the last frame is
\* the innermost one.  A frame is [dirPath, currentDepth, idx]: idx is the
\* entry its for loop handles next.  A run state carries the aggregator, the
\* stack, the messages sent so far in this callback, and two flags: returned
\* (a call has returned, so the caller is now suspended at its await and the
\* callback ends) and rejected (that call threw).

\* scanDirectory from its entry to the start of its for loop
enter(m, dirPath, currentDepth, task) ==
    IF task.abort THEN [m EXCEPT !.returned = TRUE, !.rejected = TRUE]
    ELSE IF Len(dirPath) = 0 \/ ~existsSync(dirPath)
         THEN [m EXCEPT !.returned = TRUE, !.stats.errorCount = @ + 1]
    ELSE LET normalizedPath == normalize(dirPath)
         IN  IF \/ ~existsSync(normalizedPath)
                \/ ~accessOk(normalizedPath)
                \/ ~readdirOk(normalizedPath)
             THEN [m EXCEPT !.returned = TRUE, !.stats.errorCount = @ + 1]
             ELSE [m EXCEPT !.stack = Append(@, [ dirPath |-> dirPath,
                                                   normalizedPath |-> normalizedPath,
                                                   currentDepth |-> currentDepth,
                                                   idx |-> 1 ])]

Pop(stack) == SubSeq(stack, 1, Len(stack) - 1)

checkpointNever(task) == FALSE

\* if (task.abort) throw new Error(...) at the head of the for loop
checkpoint(task) == task.abort

onEntryErrorBreak(m, next) ==
    [m EXCEPT !.stack = Pop(@), !.returned = TRUE, !.stats.errorCount = @ + 1]

onEntryErrorCounts(m, next) ==
    [next EXCEPT !.stats.errorCount = @ + 1, !.stats.scannedCount = @ + 1]

\* catch (error) { stats.errorCount++; continue; } around one entry: m is
\* the run before the entry, next the same run with the loop advanced
onEntryError(m, next) == [next EXCEPT !.stats.errorCount = @ + 1]

descendAlways(currentDepth, maxDepth) == currentDepth <= maxDepth

\* if (currentDepth < maxDepth) await scanDirectory(fullPath, currentDepth + 1, ...)
descend(currentDepth, maxDepth) == currentDepth < maxDepth

RECURSIVE loop(_, _, _)
RECURSIVE entryRange(_, _, _, _, _, _)

\* one iteration of the for loop of the innermost call, on entry i of its
\* listing; once a call has returned the callback is over and nothing runs
iteration(m, task, ready, entries, i) ==
    IF m.returned THEN m
    ELSE
    LET top == Len(m.stack)
        f == m.stack[top]
        entry == entries[i]
        fullPath == join(f.dirPath, entry.name)
        next == [m EXCEPT !.stack[top].idx = i + 1]
    IN  IF checkpoint(task)
        THEN \* the throw of the loop is caught by the function's outer catch
             [m EXCEPT !.stack = Pop(@), !.returned = TRUE, !.stats.errorCount = @ + 1]
        ELSE
        CASE entry.kind = "dir" ->
               LET found == [next EXCEPT
                                !.stats.folders = ensureFolder(@, fullPath),
                                !.stats.keys.folders =
                                    ensureKey(@, m.stats.folders, fullPath)]
               IN  IF descend(f.currentDepth, task.scanDepth)
                   THEN loop(enter(found, fullPath, f.currentDepth + 1, task), task, ready)
                   ELSE found
          [] entry.kind = "file" ->
               IF ~entry.statOk
               THEN onEntryError(m, next)
               ELSE LET st == recordFile(m.stats, fullPath, entry.name, entry.size,
                                         task.drivePath)
                        out == IF st.scannedCount % PROGRESS_EVERY = 0 /\ ready = OPEN
                               THEN Append(m.out, progressMsg(task, st, ready))
                               ELSE m.out
                    IN  [next EXCEPT !.stats = st, !.out = out]
          [] OTHER -> next

\* the iterations lo..hi of the for loop, in order
entryRange(m, task, ready, entries, lo, hi) ==
    IF lo > hi \/ m.returned THEN m
    ELSE IF lo = hi THEN iteration(m, task, ready, entries, lo)
    ELSE LET mid == (lo + hi) \div 2
         IN  entryRange(entryRange(m, task, ready, entries, lo, mid),
                        task, ready, entries, mid + 1, hi)

\* the for loop of the innermost call from its current entry on, run until
\* some call returns: a call made by an iteration, or this call itself
loop(m, task, ready) ==
    IF m.returned THEN m
    ELSE
    LET f == m.stack[Len(m.stack)]
        entries == Listing(Comps(f.normalizedPath))
        r == entryRange(m, task, ready, entries, f.idx, Len(entries))
    IN  IF r.returned THEN r
        ELSE [r EXCEPT !.stack = Pop(@), !.returned = TRUE]

\* the first callback of a walk: the call scanDirectory(drivePath, 1, ...)
\* made by startScan, run until it suspends or returns
firstRun(task, ready) ==
    loop(enter([stats |-> task.stats, stack |-> << >>, out |-> << >>,
                returned |-> FALSE, rejected |-> FALSE],
               task.drivePath, 1, task), task, ready)

\* a later callback: the innermost suspended call resumes after its await
\* (a rejected child makes the await throw into the per-entry catch)
resume(task, ready) ==
    loop([stats |-> IF task.rejected
                    THEN [task.stats EXCEPT !.errorCount = @ + 1]
                    ELSE task.stats,
          stack |-> task.stack, out |-> << >>,
          returned |-> FALSE, rejected |-> FALSE], task, ready)

\* -------------------------------------------------------------------- state
\* now: the value Date.now() returns; readyState: per connection;
\* tasks: one record per start_scan request handled, in order (phase
\* "invalid" marks a request that was refused and created no task object);
\* scanTasks: the registry Map, taskId -> task; sent: the ws.send calls made.
VARIABLES now, readyState, tasks, scanTasks, sent

vars == << now, readyState, tasks, scanTasks, sent >>

\* two connections: a task's own connection and another one
Conns == {1, 2}
TaskIds == 1..MaxTime
Depths == 1..MaxDepth

pD == <<Sep, nD>>
pDslash == <<Sep, nD, Sep>>
pDS == <<Sep, nD, Sep, nS>>
pDM == <<Sep, nD, Sep, nM>>
pU == <<Sep, nU>>
pX == <<Sep, nX>>
pZ == <<Sep, nZ>>
pW == <<Sep, nW>>
pP == <<Sep, nP>>
\* the path of the file /d/a.txt followed by a separator
pDAslash == <<Sep, nD, Sep, nA, Sep>>

NoPayload == [f \in {} |-> 0]

\* payloads of concurrent clients: a root whose walk suspends once, a path
\* that does not exist, and no drivePath at all (scanDepth is left out, so
\* the default applies)
Payloads == { [drivePath |-> pDS], [drivePath |-> pX], NoPayload }

\* payloads of a client that scans one root after another
WalkPayloads ==
    [ drivePath : {pD, pDslash, pDS, pDM, pU, pX, pZ, pW, pDAslash}, scanDepth : Depths ]

\* one ws.send call: readyState is the state of the connection at the call
\* (the ws library writes the frame only when it is OPEN)
Msg(type, taskId, self, conn, payload) ==
    [ type |-> type, taskId |-> taskId, task |-> self, conn |-> conn,
      readyState |-> readyState[conn], payload |-> payload ]

DeleteNothing(map, taskId) == map

\* scanTasks.delete(taskId)
Delete(map, taskId) == [k \in DOMAIN map \ {taskId} |-> map[k]]

\* Object.entries(map) ... .sort((a, b) => b.size - a.size): keys is the
\* sequence of the keys in the order of Object.entries; the sort is stable,
\* so the entry at keys[i] comes after the larger entries and after the
\* entries of the same size that precede it in keys
sortBySize(map, keys) ==
    LET n == Len(keys)
        size(i) == map[keys[i]].size
        rank(i) == 1 + Cardinality({ j \in 1..n :
                                       size(j) > size(i) \/ (size(j) = size(i) /\ j < i) })
        at(p) == CHOOSE i \in 1..n : rank(i) = p
    IN  [p \in 1..n |-> [key |-> keys[at(p)], size |-> size(at(p))]]

topListUncut(map, keys) == sortBySize(map, SelectSeq(keys, LAMBDA k : map[k].size > 0))

\* .filter(item => item.size > 0).sort(...).slice(0, 20)
topList(map, keys) ==
    LET sorted == sortBySize(map, SelectSeq(keys, LAMBDA k : map[k].size > 0))
    IN  SubSeq(sorted, 1, Min(TOP_N, Len(sorted)))

\* {name: '未识别应用', size: 1}: the key 0 is the name of no file
Placeholder == [key |-> 0, size |-> 1]

formatPlaceholderUnmatched(stats) ==
    [ totalFiles |-> stats.totalFiles,
      totalSize |-> stats.totalSize,
      fileTypes |-> topList(stats.fileTypes, stats.keys.fileTypes),
      folders |-> topList(stats.folders, stats.keys.folders),
      applications |-> IF DOMAIN stats.applications = {} THEN << Placeholder >>
                       ELSE topList(stats.applications, stats.keys.applications),
      errorCount |-> stats.errorCount ]

formatScanResults(stats) ==
    [ totalFiles |-> stats.totalFiles,
      totalSize |-> stats.totalSize,
      fileTypes |-> topList(stats.fileTypes, stats.keys.fileTypes),
      folders |-> topList(stats.folders, stats.keys.folders),
      applications |-> IF Len(topList(stats.applications, stats.keys.applications)) = 0
                       THEN << Placeholder >>
                       ELSE topList(stats.applications, stats.keys.applications),
      errorCount |-> stats.errorCount ]

Init ==
    /\ now = 1
    /\ readyState = [c \in Conns |-> OPEN]
    /\ tasks = << >>
    /\ scanTasks = << >>
    /\ sent = << >>

\* the clock of Date.now() advances
Tick ==
    /\ now < MaxTime
    /\ now' = now + 1
    /\ UNCHANGED << readyState, tasks, scanTasks, sent >>

invalidNever(hasPath, drivePath) == FALSE

\* if (!drivePath || !fs.existsSync(drivePath))
invalidRoot(hasPath, drivePath) == ~hasPath \/ Len(drivePath) = 0 \/ ~existsSync(drivePath)

\* message {type: 'start_scan', payload} received on ws
startScan(ws, payload) ==
    /\ readyState[ws] = OPEN
    /\ LET self == Len(tasks) + 1
           hasPath == "drivePath" \in DOMAIN payload
           drivePath == IF hasPath THEN payload.drivePath ELSE << >>
           scanDepth == IF "scanDepth" \in DOMAIN payload THEN payload.scanDepth
                        ELSE DEFAULT_DEPTH
           taskId == now
           task == [ self |-> self, ws |-> ws, drivePath |-> drivePath,
                     scanDepth |-> scanDepth, taskId |-> taskId, stats |-> scanStats,
                     abort |-> FALSE, stack |-> << >>, rejected |-> FALSE,
                     phase |-> "walking" ]
       IN  IF invalidRoot(hasPath, drivePath)
           THEN /\ sent' = Append(sent, Msg("scan_error", taskId, self, ws, << >>))
                /\ tasks' = Append(tasks, [task EXCEPT !.phase = "invalid"])
                /\ UNCHANGED scanTasks
           ELSE LET m == firstRun(task, readyState[ws])
                IN  /\ scanTasks' = Put(scanTasks, taskId, self)
                    /\ sent' = Append(sent, Msg("scan_started", taskId, self, ws, << >>))
                                  \o m.out
                    /\ tasks' = Append(tasks,
                                    [task EXCEPT !.stats = m.stats, !.stack = m.stack,
                                                 !.rejected = m.rejected,
                                                 !.phase = IF Len(m.stack) = 0
                                                           THEN "resolved" ELSE "walking"])
    /\ UNCHANGED << now, readyState >>

stopScanAny(ws, taskId) ==
    /\ readyState[ws] = OPEN
    /\ LET known == { t \in DOMAIN tasks :
                        tasks[t].taskId = taskId /\ tasks[t].phase # "invalid" }
       IN  IF known # {}
           THEN LET t == CHOOSE x \in known : \A y \in known : y <= x
                IN  /\ tasks' = [tasks EXCEPT ![t].abort = TRUE]
                    /\ sent' = Append(sent, Msg("scan_stopped", taskId, t, tasks[t].ws, << >>))
                    /\ scanTasks' = Delete(scanTasks, taskId)
           ELSE UNCHANGED << tasks, sent, scanTasks >>
    /\ UNCHANGED << now, readyState >>

\* message {type: 'stop_scan', payload: {taskId}} received on ws
stopScan(ws, taskId) ==
    /\ readyState[ws] = OPEN
    /\ IF taskId \in DOMAIN scanTasks
       THEN LET t == scanTasks[taskId]
            IN  /\ tasks' = [tasks EXCEPT ![t].abort = TRUE]
                /\ sent' = Append(sent, Msg("scan_stopped", taskId, t, tasks[t].ws, << >>))
                /\ scanTasks' = Delete(scanTasks, taskId)
       ELSE UNCHANGED << tasks, sent, scanTasks >>
    /\ UNCHANGED << now, readyState >>

\* the closing handshake of ws starts: the connection leaves the OPEN state
\* and its close event is still to come
closing(ws) ==
    /\ readyState[ws] = OPEN
    /\ readyState' = [readyState EXCEPT ![ws] = CLOSING]
    /\ UNCHANGED << now, tasks, scanTasks, sent >>

\* ws.on('close')
close(ws) ==
    /\ readyState[ws] # CLOSED
    /\ readyState' = [readyState EXCEPT ![ws] = CLOSED]
    /\ LET owned == {k \in DOMAIN scanTasks : tasks[scanTasks[k]].ws = ws}
       IN  /\ tasks' = [t \in DOMAIN tasks |->
                          IF \E k \in owned : scanTasks[k] = t
                          THEN [tasks[t] EXCEPT !.abort = TRUE] ELSE tasks[t]]
           /\ scanTasks' = [k \in DOMAIN scanTasks \ owned |-> scanTasks[k]]
    /\ UNCHANGED << now, sent >>

\* the walk of task t resumes after an await and runs to its next suspension
walkStep(t) ==
    /\ t \in DOMAIN tasks
    /\ tasks[t].phase = "walking"
    /\ LET m == resume(tasks[t], readyState[tasks[t].ws])
       IN  /\ tasks' = [tasks EXCEPT ![t].stats = m.stats, ![t].stack = m.stack,
                                     ![t].rejected = m.rejected,
                                     ![t].phase = IF Len(m.stack) = 0 THEN "resolved"
                                                  ELSE "walking"]
           /\ sent' = sent \o m.out
    /\ UNCHANGED << now, readyState, scanTasks >>

\* the .then / .catch callback of startScan for task t
settle(t) ==
    /\ t \in DOMAIN tasks
    /\ tasks[t].phase = "resolved"
    /\ LET task == tasks[t]
       IN  /\ sent' = IF task.abort THEN sent
                      ELSE IF task.rejected
                      THEN Append(sent, Msg("scan_error", task.taskId, t, task.ws, << >>))
                      ELSE Append(sent, Msg("scan_complete", task.taskId, t, task.ws,
                                            formatScanResults(task.stats)))
           /\ scanTasks' = Delete(scanTasks, task.taskId)
           /\ tasks' = [tasks EXCEPT ![t].phase = "finished"]
    /\ UNCHANGED << now, readyState >>

\* clients on every connection, requests and walks interleaved freely
Next ==
    \/ Tick
    \/ \E ws \in Conns, payload \in Payloads :
          Len(tasks) < MaxTasks /\ startScan(ws, payload)
    \/ \E ws \in Conns, taskId \in TaskIds : stopScan(ws, taskId)
    \/ \E ws \in Conns : close(ws)
    \/ \E t \in DOMAIN tasks : walkStep(t)
    \/ \E t \in DOMAIN tasks : settle(t)

Spec == Init /\ [][Next]_vars

\* the same clients, with fewer requests
LiveNext ==
    \/ Tick
    \/ \E ws \in Conns, payload \in Payloads :
          Len(tasks) < LiveTasks /\ startScan(ws, payload)
    \/ \E ws \in Conns, taskId \in TaskIds : stopScan(ws, taskId)
    \/ \E ws \in Conns : close(ws)
    \/ \E t \in DOMAIN tasks : walkStep(t)
    \/ \E t \in DOMAIN tasks : settle(t)

\* every pending callback of a walk eventually runs: the event loop runs
\* the continuation of a resolved promise
LiveSpec ==
    /\ Init /\ [][LiveNext]_vars
    /\ \A t \in 1..LiveTasks : WF_vars(walkStep(t)) /\ WF_vars(settle(t))

\* the same clients with the closing handshake of a connection made visible
CloseNext ==
    \/ Tick
    \/ \E ws \in Conns, payload \in Payloads :
          Len(tasks) < CloseTasks /\ startScan(ws, payload)
    \/ \E ws \in Conns, taskId \in TaskIds : stopScan(ws, taskId)
    \/ \E ws \in Conns : closing(ws)
    \/ \E ws \in Conns : close(ws)
    \/ \E t \in DOMAIN tasks : walkStep(t)
    \/ \E t \in DOMAIN tasks : settle(t)

CloseSpec == Init /\ [][CloseNext]_vars

\* the size of file k of a generated tree
sizeOf(k, a, b) == (a * k + b) % (MaxSize + 1)

\* the numbers 1..n in the order r+1, ..., n, 1, ..., r
rotated(n, r) == [i \in 1..n |-> ((i + r - 1) % n) + 1]

\* the generated tree: the root /t holds the directories gDir(k), each with
\* the one file gFile(k), which has an extension of its own
gRoot == <<Sep, nT>>
gDir(k) == MkName(200 + k, ExtNone)
gFile(k) == MkName(300 + k, 10 + k)

\* the walk of gRoot at depth 2 over one directory: the loop of the root
\* finds gDir(k), the call on it records gFile(k)
walkedDir(stats, k, a, b) ==
    LET dirPath == join(gRoot, gDir(k))
        found == [stats EXCEPT !.folders = ensureFolder(@, dirPath),
                               !.keys.folders = ensureKey(@, stats.folders, dirPath)]
    IN  recordFile(found, join(dirPath, gFile(k)), gFile(k), sizeOf(k, a, b), gRoot)

RECURSIVE walked(_, _, _, _, _, _)
\* the walk over the directories order[lo], ..., order[hi], in this order,
\* from the aggregator of the lo - 1 directories walked before them
walked(stats, order, a, b, lo, hi) ==
    IF lo > hi \/ stats.scannedCount >= hi THEN stats
    ELSE IF lo = hi THEN walkedDir(stats, order[lo], a, b)
    ELSE LET mid == (lo + hi) \div 2
         IN  walked(walked(stats, order, a, b, lo, mid), order, a, b, mid + 1, hi)

\* the aggregator when the walk of gRoot has returned: n directories listed
\* in the order rotated(n, r), file k of sizeOf(k, a, b) bytes
aggregator(n, a, b, r) == walked(scanStats, rotated(n, r), a, b, 1, n)

\* a task whose walk has returned with some aggregator, its completion
\* callback pending
FormatInit ==
    /\ now = 1
    /\ readyState = [c \in Conns |-> OPEN]
    /\ \E n \in 0..MaxEntries, a \in 0..MaxSize, b \in 0..MaxSize :
        \E r \in {0, n \div 2} :
          tasks = << [ self |-> 1, ws |-> 1, drivePath |-> gRoot,
                       scanDepth |-> DEFAULT_DEPTH, taskId |-> 1,
                       stats |-> aggregator(n, a, b, r),
                       abort |-> FALSE, stack |-> << >>, rejected |-> FALSE,
                       phase |-> "resolved" ] >>
    /\ scanTasks = Put(<< >>, 1, 1)
    /\ sent = << [ type |-> "scan_started", taskId |-> 1, task |-> 1, conn |-> 1,
                   readyState |-> OPEN, payload |-> << >> ] >>

\* formatScanResults applied to every such aggregator by the completion
\* callback
FormatNext == \E t \in DOMAIN tasks : settle(t)

FormatSpec == FormatInit /\ [][FormatNext]_vars

Idle == \A t \in DOMAIN tasks : tasks[t].phase \in {"finished", "invalid"}

\* one client that scans every root at every depth, one scan at a time, and
\* may stop its scan or disconnect while the walk is suspended
WalkNext ==
    \/ \E payload \in WalkPayloads :
          Len(tasks) < WalkTasks /\ Idle /\ startScan(1, payload)
    \/ \E taskId \in DOMAIN scanTasks : stopScan(1, taskId)
    \/ close(1)
    \/ \E t \in DOMAIN tasks : walkStep(t)
    \/ \E t \in DOMAIN tasks : settle(t)

WalkSpec == Init /\ [][WalkNext]_vars

\* one client that sends its requests within one millisecond, without
\* waiting for a scan to end, and whose connection may start to close and
\* close at any time: it scans the large directory and then, with the
\* default depth, the small one
ProgressNext ==
    \/ \E scanDepth \in Depths :
          /\ Len(tasks) = 0
          /\ startScan(1, [drivePath |-> pP, scanDepth |-> scanDepth])
    \/ /\ Len(tasks) \in 1..(ProgressTasks - 1)
       /\ startScan(1, [drivePath |-> pDM])
    \/ \E taskId \in DOMAIN scanTasks : stopScan(1, taskId)
    \/ closing(1)
    \/ close(1)
    \/ \E t \in DOMAIN tasks : walkStep(t)
    \/ \E t \in DOMAIN tasks : settle(t)

ProgressSpec == Init /\ [][ProgressNext]_vars

\* ------------------------------------------------------------- properties
MsgIdx == 1..Len(sent)
Terminal == {"scan_complete", "scan_error", "scan_stopped"}

\* task t is the value of some registry entry
Registered(t) == \E k \in DOMAIN scanTasks : scanTasks[k] = t

\* the request created a task object (it was not refused)
Created(t) == t \in DOMAIN tasks /\ tasks[t].phase # "invalid"

\* the walk of t or its completion callback is still pending
Running(t) == t \in DOMAIN tasks /\ tasks[t].phase \in {"walking", "resolved"}

IsPrefix(a, b) == Len(a) <= Len(b) /\ SubSeq(b, 1, Len(a)) = a

RECURSIVE SumOver(_, _)
SumOver(S, sizes) ==
    IF sizes = {} THEN 0
    ELSE LET v == CHOOSE y \in sizes : TRUE
         IN  v * Cardinality({x \in S : x.size = v}) + SumOver(S, sizes \ {v})

\* the sum of the sizes of a set of files
SumSizes(S) == SumOver(S, {x.size : x \in S})

RECURSIVE Visited(_, _, _)
\* the files of the tree a walk of directory cs at depth `depth` has to
\* count: those whose metadata can be read, in directories that can be
\* listed, no deeper than maxDepth
Visited(cs, depth, maxDepth) ==
    IF cs \notin Dirs \/ cs \in Unreadable THEN {}
    ELSE LET L == Listing(cs)
         IN  { [path |-> Append(cs, L[i].name), size |-> L[i].size] :
                    i \in {j \in 1..Len(L) : L[j].kind = "file" /\ L[j].statOk} }
             \cup UNION { IF depth < maxDepth
                          THEN Visited(Append(cs, L[i].name), depth + 1, maxDepth)
                          ELSE {} : i \in {j \in 1..Len(L) : L[j].kind = "dir"} }

VisitedBy(t) == Visited(Comps(tasks[t].drivePath), 1, tasks[t].scanDepth)

\* C1: once scan_stopped was sent for a taskId, no scan_progress and no
\* scan_complete with that taskId is sent afterwards
C1_NoOutputAfterStop ==
    \A i \in MsgIdx, j \in MsgIdx :
        (i < j /\ sent[i].type = "scan_stopped"
               /\ sent[j].type \in {"scan_progress", "scan_complete"})
            => sent[j].taskId # sent[i].taskId

\* C2: any two start_scan requests that register a task obtain different
\* taskIds
C2_UniqueTaskIds ==
    \A t1 \in DOMAIN tasks, t2 \in DOMAIN tasks :
        (t1 # t2 /\ Created(t1) /\ Created(t2)) => tasks[t1].taskId # tasks[t2].taskId

\* C3: at most one terminal message (scan_complete, scan_error,
\* scan_stopped) is ever sent for the taskId of a task
C3_OneTerminalPerTaskId ==
    \A i \in MsgIdx, j \in MsgIdx :
        (i < j /\ sent[i].type \in Terminal /\ sent[j].type \in Terminal
               /\ Created(sent[i].task) /\ Created(sent[j].task))
            => sent[j].taskId # sent[i].taskId

TerminalSent(t) ==
    \E i \in MsgIdx : sent[i].task = t /\ sent[i].type \in {"scan_complete", "scan_error"}

\* C5: every walk terminates: a started task eventually finishes, having
\* sent scan_complete or scan_error unless it was aborted, and every
\* registered task is eventually absent from the registry
C5_Terminates ==
    \A t \in 1..LiveTasks :
        /\ Running(t) ~> (t \in DOMAIN tasks /\ tasks[t].phase = "finished")
        /\ Running(t) ~> (t \in DOMAIN tasks /\ (tasks[t].abort \/ TerminalSent(t)))
        /\ Registered(t) ~> ~Registered(t)

\* a task that was never aborted has finished, sent its scan_complete and
\* is gone from the registry
C5_Witness ==
    \E t \in DOMAIN tasks :
        /\ tasks[t].phase = "finished" /\ ~tasks[t].abort
        /\ TerminalSent(t) /\ ~Registered(t)

\* C6: the totalSize and totalFiles reported by scan_complete are the sum of
\* the sizes and the number of the files visited within the depth limit
\* whose metadata query succeeded
C6_SizeConservation ==
    \A i \in MsgIdx :
        sent[i].type = "scan_complete"
            => /\ sent[i].payload.totalSize = SumSizes(VisitedBy(sent[i].task))
               /\ sent[i].payload.totalFiles = Cardinality(VisitedBy(sent[i].task))

\* a scan of /d at depth 2 completed: one file failed its metadata query,
\* the others were counted
C6_Witness ==
    \E i \in MsgIdx :
        /\ sent[i].type = "scan_complete"
        /\ tasks[sent[i].task].drivePath = pD
        /\ tasks[sent[i].task].scanDepth = 2
        /\ sent[i].payload.errorCount > 0
        /\ sent[i].payload.totalFiles = MFiles + 2

\* C7: at completion every folder entry at or below the root holds the sum
\* of the sizes of the visited files of its whole subtree, and no folder
\* outside the root holds any size
C7_FolderRollup ==
    \A t \in DOMAIN tasks :
        (tasks[t].phase \in {"resolved", "finished"} /\ ~tasks[t].abort)
            => \A F \in DOMAIN tasks[t].stats.folders :
                  tasks[t].stats.folders[F].size =
                      IF IsPrefix(Comps(tasks[t].drivePath), Comps(F))
                      THEN SumSizes({f \in VisitedBy(t) : IsPrefix(Comps(F), f.path)})
                      ELSE 0

RelDepth(t, p) == Len(Comps(p)) - Len(Comps(tasks[t].drivePath))

\* C8: scanDirectory only runs with currentDepth in 1..maxDepth; a directory
\* found at the depth ceiling has an entry of size 0, and no file below the
\* ceiling is counted in any total, file type, folder or application
C8_DepthCeiling ==
    \A t \in DOMAIN tasks :
        Created(t) =>
            LET st == tasks[t].stats
                V == VisitedBy(t)
            IN  /\ \A i \in 1..Len(tasks[t].stack) :
                      /\ tasks[t].stack[i].currentDepth \in 1..tasks[t].scanDepth
                      /\ tasks[t].stack[i].currentDepth
                            = RelDepth(t, tasks[t].stack[i].dirPath) + 1
                /\ \A F \in DOMAIN st.folders :
                      /\ RelDepth(t, F) <= tasks[t].scanDepth
                      /\ RelDepth(t, F) = tasks[t].scanDepth => st.folders[F].size = 0
                /\ \A a \in DOMAIN st.applications :
                      RelDepth(t, st.applications[a].path) <= tasks[t].scanDepth
                /\ \A e \in DOMAIN st.fileTypes :
                      st.fileTypes[e].count
                          <= Cardinality({f \in V : extname(f.path[Len(f.path)]) = e})
                /\ st.totalFiles <= Cardinality(V)
                /\ st.totalSize <= SumSizes(V)

\* a scan of /d at depth 1 finished: /d/s was found at the ceiling, has an
\* entry of size 0, and its file b.exe was not counted
C8_Witness ==
    \E t \in DOMAIN tasks :
        /\ tasks[t].phase = "finished" /\ ~tasks[t].abort
        /\ tasks[t].drivePath = pD /\ tasks[t].scanDepth = 1
        /\ pDS \in DOMAIN tasks[t].stats.folders
        /\ tasks[t].stats.folders[pDS].size = 0
        /\ tasks[t].stats.totalFiles = 1

UnreadableRoot(t) ==
    /\ Len(tasks[t].drivePath) > 0
    /\ existsSync(tasks[t].drivePath)
    /\ ~accessOk(tasks[t].drivePath)

\* C9: a start_scan whose root exists but is not readable fails at once:
\* scan_error is sent, the task is never registered, neither scan_started
\* nor scan_complete is sent and no folder entry is created
C9_UnreadableRootFails ==
    \A t \in DOMAIN tasks :
        UnreadableRoot(t)
            => /\ tasks[t].phase = "invalid"
               /\ ~Registered(t)
               /\ \E i \in MsgIdx : sent[i].task = t /\ sent[i].type = "scan_error"
               /\ \A i \in MsgIdx : sent[i].task = t => sent[i].type = "scan_error"

InvalidInput(t) == Len(tasks[t].drivePath) = 0 \/ ~existsSync(tasks[t].drivePath)

C10_State ==
    \A t \in DOMAIN tasks :
        InvalidInput(t)
            => /\ Cardinality({i \in MsgIdx : sent[i].task = t}) = 1
               /\ \A i \in MsgIdx : sent[i].task = t => sent[i].type = "scan_error"
               /\ ~Registered(t)

C10_Step ==
    (Len(tasks') = Len(tasks) + 1 /\ InvalidInput(Len(tasks))')
        => scanTasks' = scanTasks

\* C10: a start_scan whose root path is missing or does not exist gets
\* exactly one scan_error and no other message, and leaves the registry
\* unchanged
C10_InvalidRoot == [](C10_State) /\ [][C10_Step]_vars

\* a request for a missing or nonexistent root was refused while another
\* task was registered
C10_Witness ==
    \E t \in DOMAIN tasks :
        /\ InvalidInput(t)
        /\ \E i \in MsgIdx : sent[i].task = t /\ sent[i].type = "scan_error"
        /\ \E u \in DOMAIN tasks : u < t /\ Registered(u)

RECURSIVE FailedAt(_, _, _)
\* the paths at which a walk of directory cs at depth `depth` meets an
\* access failure: directories that are missing or cannot be listed, and
\* files whose metadata cannot be read
FailedAt(cs, depth, maxDepth) ==
    IF cs \notin Dirs \/ cs \in Unreadable THEN {cs}
    ELSE LET L == Listing(cs)
         IN  { Append(cs, L[i].name) :
                    i \in {j \in 1..Len(L) : L[j].kind = "file" /\ ~L[j].statOk} }
             \cup UNION { IF depth < maxDepth
                          THEN FailedAt(Append(cs, L[i].name), depth + 1, maxDepth)
                          ELSE {} : i \in {j \in 1..Len(L) : L[j].kind = "dir"} }

FailedBy(t) == FailedAt(Comps(tasks[t].drivePath), 1, tasks[t].scanDepth)

\* the root of t can be listed and some entry below it fails
EntryFailure(t) ==
    /\ Created(t)
    /\ Comps(tasks[t].drivePath) \in Dirs \ Unreadable
    /\ FailedBy(t) # {}

\* C11: when the root is readable and an entry below it fails, a task that
\* is not stopped never sends scan_error and ends with a scan_complete
\* whose errorCount is at least 1, every readable file within the depth
\* limit counted and every directory of the root recorded
C11_EntryFailuresNotFatal ==
    \A t \in DOMAIN tasks :
        (EntryFailure(t) /\ ~tasks[t].abort)
            => /\ \A i \in MsgIdx : sent[i].task = t => sent[i].type # "scan_error"
               /\ tasks[t].phase = "finished"
                    => /\ \E i \in MsgIdx :
                             /\ sent[i].task = t /\ sent[i].type = "scan_complete"
                             /\ sent[i].payload.errorCount >= 1
                             /\ sent[i].payload.totalFiles = Cardinality(VisitedBy(t))
                       /\ LET cs == Comps(tasks[t].drivePath)
                              L == Listing(cs)
                          IN  \A j \in 1..Len(L) :
                                 L[j].kind = "dir"
                                    => \E F \in DOMAIN tasks[t].stats.folders :
                                          Comps(F) = Append(cs, L[j].name)

\* a scan of /d at depth 2 completed with both failures counted and the
\* directory /d/m, listed after them, holding the size of its files
C11_Witness ==
    \E i \in MsgIdx :
        /\ sent[i].type = "scan_complete"
        /\ tasks[sent[i].task].drivePath = pD
        /\ tasks[sent[i].task].scanDepth = 2
        /\ sent[i].payload.errorCount = 2
        /\ pDM \in DOMAIN tasks[sent[i].task].stats.folders
        /\ tasks[sent[i].task].stats.folders[pDM].size > 0

\* the files a task has recorded, 0 before the task exists
Recorded(t) == IF t \in DOMAIN tasks THEN tasks[t].stats.scannedCount ELSE 0

C12_Step ==
    \A t \in DOMAIN tasks' :
        /\ Recorded(t)' - Recorded(t) <= 1
        /\ (t \notin DOMAIN tasks /\ Created(t)' /\ Recorded(t)' > 0)
              => tasks'[t].phase = "walking"

\* C12: the walk yields between entries: no callback records more than one
\* file, and a walk that records a file is still in progress when the
\* start_scan handler returns, so that a start_scan or stop_scan can be
\* handled before the walk finishes
C12_WalkYields == [][C12_Step]_vars

\* C13: every ws.send is made on a connection that is in the OPEN state at
\* the time of the call
C13_SendOnlyWhenOpen ==
    \A i \in MsgIdx : sent[i].readyState = OPEN

\* the walk of t or its completion is pending and t was not aborted
Live(t) == Running(t) /\ ~tasks[t].abort

\* the registry holds, under their own taskId, only tasks that are live
C14_State ==
    \A id \in DOMAIN scanTasks :
        Live(scanTasks[id]) /\ tasks[scanTasks[id]].taskId = id

\* a step that sends scan_stopped is the stop of a registered live task with
\* that taskId; it sets the abort flag of that task, removes its entry and
\* changes nothing else
C14_Step ==
    (Len(sent') = Len(sent) + 1 /\ sent'[Len(sent')].type = "scan_stopped")
        => LET m == sent'[Len(sent')]
           IN  /\ m.taskId \in DOMAIN scanTasks
               /\ scanTasks[m.taskId] = m.task
               /\ Live(m.task)
               /\ tasks[m.task].taskId = m.taskId
               /\ tasks' = [tasks EXCEPT ![m.task].abort = TRUE]
               /\ scanTasks' = [k \in DOMAIN scanTasks \ {m.taskId} |-> scanTasks[k]]

\* C14: a stop_scan for a taskId that no task has, or whose tasks have all
\* finished or were stopped, is a no-op: such a taskId is not in the
\* registry, and scan_stopped is only ever sent, and an abort flag only
\* ever set by a stop, for a registered live task with that taskId
C14_StopUnknownIsNoOp == [](C14_State) /\ [][C14_Step]_vars

\* a task has finished and its taskId is no longer registered while another
\* task is live and a connection is open to send the stop_scan
C14_Witness ==
    \E t \in DOMAIN tasks :
        /\ tasks[t].phase = "finished"
        /\ tasks[t].taskId \notin DOMAIN scanTasks
        /\ \E u \in DOMAIN tasks : u # t /\ Live(u) /\ tasks[u].taskId # tasks[t].taskId
        /\ \E ws \in Conns : readyState[ws] = OPEN

\* the applications list of message i holds the placeholder entry
HasPlaceholder(i) ==
    \E j \in 1..Len(sent[i].payload.applications) :
        sent[i].payload.applications[j] = Placeholder

\* C15 as stated: whenever a visited file was classified as an application,
\* the applications list of scan_complete holds no placeholder
C15_PlaceholderOnlyUnmatched ==
    \A i \in MsgIdx :
        (sent[i].type = "scan_complete"
            /\ DOMAIN tasks[sent[i].task].stats.applications # {})
            => ~HasPlaceholder(i)

\* C15 amended: the applications list of scan_complete holds the placeholder
\* exactly when no matched application has a positive size, and then the
\* placeholder is its only entry
C15_PlaceholderWhenNoPositiveSize ==
    \A i \in MsgIdx :
        sent[i].type = "scan_complete"
            => LET apps == tasks[sent[i].task].stats.applications
               IN  /\ HasPlaceholder(i) <=> (\A a \in DOMAIN apps : apps[a].size = 0)
                   /\ HasPlaceholder(i) => Len(sent[i].payload.applications) = 1

\* a scan of /z completed: its only file h.exe was matched as an application
\* of size 0 and the list holds the placeholder
C15_Witness ==
    \E i \in MsgIdx :
        /\ sent[i].type = "scan_complete"
        /\ DOMAIN tasks[sent[i].task].stats.applications # {}
        /\ HasPlaceholder(i)

\* list is a ranking of the entries of map: at most TOP_N entries, in
\* non-increasing order of size, each an entry of map with a positive size,
\* none twice, and every positive entry of map left out is no larger than
\* every entry kept, and is left out only where the list is full
Ranked(list, map) ==
    /\ Len(list) <= TOP_N
    /\ \A j \in 1..Len(list) :
          /\ list[j].size > 0
          /\ list[j].key \in DOMAIN map
          /\ map[list[j].key].size = list[j].size
          /\ \A h \in 1..Len(list) : list[h].key = list[j].key => h = j
          /\ j < Len(list) => list[j].size >= list[j + 1].size
    /\ \A k \in DOMAIN map :
          (map[k].size > 0 /\ \A j \in 1..Len(list) : list[j].key # k)
              => /\ Len(list) = TOP_N
                 /\ \A j \in 1..Len(list) : list[j].size >= map[k].size

\* C16: in every scan_complete each of the three lists has at most 20
\* entries, is sorted by non-increasing size, holds only entries of the
\* aggregator with size > 0 and holds the 20 largest of them (the
\* applications list may instead be the single placeholder entry)
C16_TopTwenty ==
    \A i \in MsgIdx :
        sent[i].type = "scan_complete"
            => LET st == tasks[sent[i].task].stats
                   r == sent[i].payload
               IN  /\ Ranked(r.fileTypes, st.fileTypes)
                   /\ Ranked(r.folders, st.folders)
                   /\ IF r.applications = << Placeholder >>
                      THEN \A a \in DOMAIN st.applications : st.applications[a].size = 0
                      ELSE Ranked(r.applications, st.applications)

\* a scan_complete whose aggregator holds more than 20 folders of positive
\* and different sizes: the list is full and a folder was left out
C16_Witness ==
    \E i \in MsgIdx :
        /\ sent[i].type = "scan_complete"
        /\ LET st == tasks[sent[i].task].stats
               r == sent[i].payload
           IN  /\ Cardinality({F \in DOMAIN st.folders : st.folders[F].size > 0}) > TOP_N
               /\ Len(r.folders) = TOP_N
               /\ r.folders[1].size > r.folders[TOP_N].size

\* the scan_progress messages sent for task t
ProgressOf(t) == { i \in MsgIdx : sent[i].task = t /\ sent[i].type = "scan_progress" }

\* every scan_progress carries a positive multiple of 50 that its task has
\* reached, was sent on an open connection and has percentage =
\* min(99, floor(scannedCount / 100)); a task has sent at most one per
\* multiple reached, and one per multiple while its connection is open
C17_State ==
    /\ \A i \in MsgIdx :
          sent[i].type = "scan_progress"
              => LET c == sent[i].payload.scannedCount
                 IN  /\ c > 0 /\ c % 50 = 0
                     /\ c <= tasks[sent[i].task].stats.scannedCount
                     /\ sent[i].readyState = 1
                     /\ sent[i].payload.percentage = (IF c \div 100 < 99 THEN c \div 100 ELSE 99)
                     /\ sent[i].payload.percentage \in 0..99
    /\ \A t \in DOMAIN tasks :
          /\ Cardinality(ProgressOf(t)) <= tasks[t].stats.scannedCount \div 50
          /\ readyState[tasks[t].ws] = 1
                => Cardinality(ProgressOf(t)) = tasks[t].stats.scannedCount \div 50

\* a step sends, for every task, one scan_progress per multiple of 50 that
\* the task's scannedCount reaches in the step when its connection is open,
\* each with that multiple as its count, and none when it is not open; a
\* message sent has a higher count than every earlier message of its task
\* and a percentage that is not lower
C17_Step ==
    /\ Len(sent') >= Len(sent)
    /\ \A t \in DOMAIN tasks' :
          LET before == IF t \in DOMAIN tasks THEN tasks[t].stats.scannedCount ELSE 0
              after == tasks'[t].stats.scannedCount
              new == { i \in (Len(sent) + 1)..Len(sent') :
                          sent'[i].task = t /\ sent'[i].type = "scan_progress" }
              reached == { c \in (before + 1)..after : c % 50 = 0 }
          IN  /\ IF readyState[tasks'[t].ws] = 1
                 THEN /\ Cardinality(new) = Cardinality(reached)
                      /\ \A c \in reached :
                            \E i \in new : sent'[i].payload.scannedCount = c
                 ELSE new = {}
              /\ \A j \in new :
                    \A i \in 1..(j - 1) :
                        (sent'[i].task = t /\ sent'[i].type = "scan_progress")
                            => /\ sent'[i].payload.scannedCount < sent'[j].payload.scannedCount
                               /\ sent'[i].payload.percentage <= sent'[j].payload.percentage

\* C17: a scan_progress is sent exactly when scannedCount reaches a positive
\* multiple of 50 while the connection is open and never otherwise: every
\* step sends one per multiple reached on an open connection and none on a
\* connection that is not open; every message carries such a count and
\* percentage = min(99, floor(scannedCount / 100)) in 0..99, and within a
\* task the counts strictly increase and the percentages never decrease
C17_ProgressCadence == []C17_State /\ [][C17_Step]_vars

\* a task has sent a scan_progress whose percentage is capped at 99 (its
\* count is over 9999) after one with a lower percentage, and has then
\* reached a further multiple of 50 on a connection that was not open, for
\* which nothing was sent
C17_Witness ==
    \E t \in DOMAIN tasks :
        /\ readyState[tasks[t].ws] # 1
        /\ Cardinality(ProgressOf(t)) < tasks[t].stats.scannedCount \div 50
        /\ \E i, j \in ProgressOf(t) :
              /\ i < j
              /\ sent[i].payload.percentage < sent[j].payload.percentage
              /\ sent[j].payload.scannedCount \div 100 > 99
              /\ sent[j].payload.percentage = 99

\* C18: errorCount never exceeds the number of access failures of the walk
\* (directories that are missing or cannot be listed, files whose metadata
\* cannot be read) and equals it once the walk has returned; a cancellation
\* is not counted
C18_ErrorCountIsFailures ==
    \A t \in DOMAIN tasks :
        Created(t)
            => /\ tasks[t].stats.errorCount <= Cardinality(FailedBy(t))
               /\ (tasks[t].phase \in {"resolved", "finished"} /\ ~tasks[t].abort)
                     => tasks[t].stats.errorCount = Cardinality(FailedBy(t))

\* the part of the aggregator that records files and directories
Recordings(t) ==
    [ totalFiles |-> tasks[t].stats.totalFiles,
      totalSize |-> tasks[t].stats.totalSize,
      scannedCount |-> tasks[t].stats.scannedCount,
      fileTypes |-> tasks[t].stats.fileTypes,
      folders |-> tasks[t].stats.folders,
      applications |-> tasks[t].stats.applications ]

C19_Step ==
    \A t \in DOMAIN tasks :
        tasks[t].abort
            => /\ Recordings(t)' = Recordings(t)
               /\ Len(tasks'[t].stack) <= Len(tasks[t].stack)
               /\ ProgressOf(t)' = ProgressOf(t)
               /\ tasks'[t].abort

\* C19: once the abort flag of a task is set, no later step of its walk
\* records anything: totalFiles, totalSize, scannedCount, fileTypes, folders
\* and applications stay as they are, no directory is entered and no
\* scan_progress is sent
C19_NothingAfterAbort == [][C19_Step]_vars

\* a walk that was aborted has returned with part of its files recorded
C19_Witness ==
    \E t \in DOMAIN tasks :
        /\ tasks[t].abort
        /\ tasks[t].phase \in {"resolved", "finished"}
        /\ tasks[t].stats.totalFiles > 0
        /\ tasks[t].stats.totalFiles < Cardinality(VisitedBy(t))

\* the run state of the suspended walk of t, as its next callback finds it
RunOf(t) ==
    [ stats |-> tasks[t].stats, stack |-> tasks[t].stack, out |-> << >>,
      returned |-> FALSE, rejected |-> FALSE ]

\* the visited files of t with extension e
VisitedExt(t, e) == { f \in VisitedBy(t) : extname(f.path[Len(f.path)]) = e }

\* C20: an entry whose statSync fails adds exactly 1 to errorCount and
\* changes nothing else. In every state of a walk that is not stopped, the
\* iteration on a failing file of the directory being listed only adds 1 to
\* errorCount and advances the loop; and a completed walk has counted its
\* failing files in no total, file type or application while the entries
\* listed after them were processed
C20_FailedStatFrame ==
    \A t \in DOMAIN tasks :
        (Created(t) /\ ~tasks[t].abort)
            => /\ Len(tasks[t].stack) > 0
                    => LET top == Len(tasks[t].stack)
                           entries == Listing(Comps(tasks[t].stack[top].normalizedPath))
                       IN  \A i \in 1..Len(entries) :
                              (entries[i].kind = "file" /\ ~entries[i].statOk)
                                  => iteration(RunOf(t), tasks[t], OPEN, entries, i)
                                       = [RunOf(t) EXCEPT !.stats.errorCount = @ + 1,
                                                          !.stack[top].idx = i + 1]
               /\ tasks[t].phase \in {"resolved", "finished"}
                    => LET st == tasks[t].stats
                       IN  /\ st.totalFiles = Cardinality(VisitedBy(t))
                           /\ st.scannedCount = Cardinality(VisitedBy(t))
                           /\ st.totalSize = SumSizes(VisitedBy(t))
                           /\ \A e \in DOMAIN st.fileTypes :
                                 /\ st.fileTypes[e].count = Cardinality(VisitedExt(t, e))
                                 /\ st.fileTypes[e].size = SumSizes(VisitedExt(t, e))
                           /\ \A a \in DOMAIN st.applications :
                                 Comps(st.applications[a].path) \notin FailedBy(t)
                           /\ st.errorCount = Cardinality(FailedBy(t))

\* a walk of /d suspended after the statSync of /d/e.txt failed: one error
\* is counted and the entries after it were reached
C20_Witness ==
    \E t \in DOMAIN tasks :
        /\ Created(t) /\ ~tasks[t].abort
        /\ tasks[t].phase = "walking"
        /\ Len(tasks[t].stack) = 1
        /\ tasks[t].stack[1].dirPath = pD
        /\ tasks[t].stack[1].idx > 2
        /\ tasks[t].stats.errorCount = 1
        /\ tasks[t].stats.totalFiles > 1

RECURSIVE SumField(_, _, _)
\* the sum of map[k][field] over the keys of a category map
SumField(map, keys, field) ==
    IF keys = {} THEN 0
    ELSE LET k == CHOOSE x \in keys : TRUE
         IN  map[k][field] + SumField(map, keys \ {k}, field)

C21_State ==
    \A t \in DOMAIN tasks :
        LET st == tasks[t].stats
        IN  /\ st.scannedCount = st.totalFiles
            /\ SumField(st.fileTypes, DOMAIN st.fileTypes, "count") = st.totalFiles
            /\ SumField(st.fileTypes, DOMAIN st.fileTypes, "size") = st.totalSize

C21_Step ==
    \A t \in DOMAIN tasks :
        /\ tasks'[t].stats.totalFiles >= tasks[t].stats.totalFiles
        /\ tasks'[t].stats.totalSize >= tasks[t].stats.totalSize
        /\ tasks'[t].stats.scannedCount >= tasks[t].stats.scannedCount
        /\ tasks'[t].stats.errorCount >= tasks[t].stats.errorCount

\* C21: in every state of a walk scannedCount equals totalFiles, the counts
\* of the fileTypes entries sum to totalFiles and their sizes sum to
\* totalSize; totalFiles, totalSize, scannedCount and errorCount never
\* decrease
C21_CounterConsistency == [](C21_State) /\ [][C21_Step]_vars

====
